---------------------------- MODULE Spec2Model ----------------------------
(***************************************************************************)
(* verve_vero_common: request-scoped authentication and tenant contexts,  *)
(* the authentication middleware, the role guards and the per-tenant      *)
(* database router.                                                        *)
(***************************************************************************)
EXTENDS Integers, Sequences, FiniteSets, TLC

(***************************************************************************)
(* Python values.  None is the absence marker of Optional[str]; Truthy is *)
(* the truth value Python gives an Optional[str] in `if x` and `x or y`.  *)
(***************************************************************************)
None == "<None>"

Truthy(v) == v /= None /\ v /= ""

\* Python's `a or b` on Optional[str]
PyOr(a, b) == IF Truthy(a) THEN a ELSE b

\* str.startswith on strings spelled as sequences of characters
startswith(s, p) == Len(p) <= Len(s) /\ SubSeq(s, 1, Len(p)) = p

(***************************************************************************)
(* auth/types.py                                                           *)
(***************************************************************************)
UserType == {"system_admin", "portal_admin", "client_admin", "chat_user"}

(***************************************************************************)
(* Logical execution contexts.  A ContextVar holds one value per context; *)
(* reqA and reqB are the contexts of two concurrently handled requests     *)
(* (or jobs), worker is the context in which AuthMiddleware.dispatch runs  *)
(* one request after the other.                                            *)
(***************************************************************************)
ReqCtxs == {"reqA", "reqB"}

Worker == "worker"

Ctxs == ReqCtxs \cup {Worker}

(***************************************************************************)
(* Strings the code takes apart, spelled as sequences of characters       *)
(***************************************************************************)
DEV_PUBLIC_PATHS ==
  << <<"/", "a", "p", "i", "/", "v", "1", "/", "a", "u", "t", "h", "/", "l", "o", "g", "i", "n", "/", "p", "o", "r", "t", "a", "l">>,
     <<"/", "a", "p", "i", "/", "v", "1", "/", "a", "u", "t", "h", "/", "l", "o", "g", "i", "n", "/", "a", "d", "m", "i", "n">>,
     <<"/", "a", "p", "i", "/", "v", "1", "/", "a", "u", "t", "h", "/", "l", "o", "g", "i", "n", "/", "c", "h", "a", "t">>,
     <<"/", "a", "p", "i", "/", "v", "1", "/", "a", "u", "t", "h", "/", "r", "e", "f", "r", "e", "s", "h">>,
     <<"/", "a", "p", "i", "/", "v", "1", "/", "h", "e", "a", "l", "t", "h">>,
     <<"/", "a", "p", "i", "/", "v", "1", "/", "p", "o", "r", "t", "a", "l", "s", "/", "p", "u", "b", "l", "i", "c", "/", "b", "r", "a", "n", "d", "i", "n", "g">>,
     <<"/", "a", "p", "i", "/", "v", "1", "/", "p", "o", "r", "t", "a", "l", "s", "/", "i", "n", "t", "e", "r", "n", "a", "l", "/">>,
     <<"/", "a", "p", "i", "/", "v", "1", "/", "a", "g", "e", "n", "t", "s", "/">>,
     <<"/", "a", "p", "i", "/", "v", "1", "/", "i", "n", "t", "e", "r", "n", "a", "l", "/">>,
     <<"/", "d", "o", "c", "s">>,
     <<"/", "r", "e", "d", "o", "c">>,
     <<"/", "o", "p", "e", "n", "a", "p", "i", ".", "j", "s", "o", "n">> >>

PathHealth ==
  <<"/", "a", "p", "i", "/", "v", "1", "/", "h", "e", "a", "l", "t", "h">>

PathAgentsPrivate ==
  <<"/", "a", "p", "i", "/", "v", "1", "/", "a", "g", "e", "n", "t", "s", "/", "p", "r", "i", "v", "a", "t", "e">>

PathUsers ==
  <<"/", "a", "p", "i", "/", "v", "1", "/", "u", "s", "e", "r", "s">>

PathAgentsNoSlash ==
  <<"/", "a", "p", "i", "/", "v", "1", "/", "a", "g", "e", "n", "t", "s">>

PathDocsify ==
  <<"/", "d", "o", "c", "s", "i", "f", "y">>

BearerPrefix ==
  <<"B", "e", "a", "r", "e", "r", " ">>

HdrBearer ==
  <<"B", "e", "a", "r", "e", "r", " ", "<jwt>">>

HdrBasic ==
  <<"B", "a", "s", "i", "c", " ", "d", "X", "N", "l", "c", "g">>

HdrLowerBearer ==
  <<"b", "e", "a", "r", "e", "r", " ", "<jwt>">>

VARIABLES
  auth_context,     \* context.py _auth_context: per context, <<>> or <<AuthContext>>
  current_portal,   \* portal.py _current_portal: per context, None or a portal id
  auth_set_for,     \* per context, the value last stored on its behalf by set_auth_context
  portal_set_for,   \* per context, the value last passed on its behalf to set_current_portal
  api_last,         \* the last direct call of set_auth_context and how it ended
  dev_mode,         \* AuthMiddleware.dev_mode
  gateway_secret,   \* AuthMiddleware.gateway_secret
  pc,               \* dispatch: "idle" (not entered), "handler" (awaiting call_next), "done"
  req,              \* the request being dispatched
  via,              \* which call_next the dispatch reached: "none", "untrusted", "main"
  outcome,          \* how dispatch ended: a response or an exception
  portal_calls,     \* the arguments dispatch passed to set_portal_context, in order
  resolver,         \* session.py _get_portal_database_url: <<>> (None) or <<resolver>>
  engine_cache,     \* the lru_cache of get_engine_for_portal, least recently used first
  engines,          \* every engine create_engine has returned, in order of creation
  calls,            \* per caller thread, its call of get_engine_for_portal
  guard_last,       \* the last call of a role guard: what it saw and how it ended
  public_db,        \* public.py _engine and _SessionLocal: <<>> (None) or <<URL bound>>
  scopes,           \* per caller thread, its use of a session helper
  database,         \* per database URL, the writes committed to it
  caller_commits,   \* per database URL, the writes committed by a caller's db.commit()
  portal_contexts   \* the PortalContext objects of a job, the scopes it is in and its last exit

ctxVars == <<auth_context, current_portal, auth_set_for, portal_set_for>>

mwVars == <<dev_mode, gateway_secret, pc, req, via, outcome, portal_calls>>

dbVars == <<resolver, engine_cache, engines, calls>>

guardVars == <<guard_last>>

sessVars == <<public_db, scopes, database, caller_commits>>

nestVars == <<portal_contexts>>

(***************************************************************************)
(* auth/context.py                                                         *)
(***************************************************************************)
NoAuth == <<>>

\* AuthContext() with its three fields filled in (context.py lines 31-34)
AuthContext(user_id, user_type, portal_id) ==
  [user_id |-> user_id, user_type |-> user_type,
   portal_id |-> IF Truthy(portal_id) THEN portal_id ELSE None]

\* The parameters set_auth_context declares
SetAuthContextParams == {"user_id", "user_type", "portal_id"}

\* set_auth_context with a module-level variable in place of the ContextVar:
\* the value is stored for every context.
set_auth_context_shared(store, c, user_id, user_type, portal_id) ==
  IF user_type \notin UserType
    THEN [exc |-> "ValueError", store |-> store]
    ELSE [exc |-> None,
          store |-> [x \in DOMAIN store |->
                       <<AuthContext(user_id, user_type, portal_id)>>]]

\* set_auth_context storing the context before the role is validated
set_auth_context_store_first(store, c, user_id, user_type, portal_id) ==
  [exc |-> IF user_type \notin UserType THEN "ValueError" ELSE None,
   store |-> [store EXCEPT ![c] = <<AuthContext(user_id, user_type, portal_id)>>]]

\* set_auth_context in context c: UserType(user_type) raises ValueError for a
\* value outside the enumeration, before _auth_context.set is reached.
set_auth_context(store, c, user_id, user_type, portal_id) ==
  IF user_type \notin UserType
    THEN [exc |-> "ValueError", store |-> store]
    ELSE [exc |-> None,
          store |-> [store EXCEPT ![c] = <<AuthContext(user_id, user_type, portal_id)>>]]

\* A keyword call set_auth_context(**kw): Python binds the keywords to the
\* declared parameters first and raises TypeError for an unexpected or a
\* missing one; only then the body runs.
call_set_auth_context(store, c, kw) ==
  IF DOMAIN kw /= SetAuthContextParams
    THEN [exc |-> "TypeError", store |-> store]
    ELSE set_auth_context(store, c, kw.user_id, kw.user_type, kw.portal_id)

get_auth_context(c) == auth_context[c]

clear_auth_context(store, c) == [store EXCEPT ![c] = NoAuth]

(***************************************************************************)
(* auth/dependencies.py: a guard called in context c either raises an      *)
(* HTTPException or returns a value.                                       *)
(***************************************************************************)
HTTPException(status_code, detail) ==
  [raised |-> TRUE, status_code |-> status_code, detail |-> detail, value |-> <<>>]

Returned(value) ==
  [raised |-> FALSE, status_code |-> 0, detail |-> None, value |-> <<value>>]

\* The dict the guards and get_current_user return
user_info(context) ==
  [user_id |-> context.user_id, user_type |-> context.user_type,
   portal_id |-> context.portal_id]

require_auth(c) ==
  LET context == get_auth_context(c) IN
  IF context = NoAuth
    THEN HTTPException(401, "Not authenticated")
    ELSE Returned(context[1])

get_current_user(c) ==
  LET a == require_auth(c) IN
  IF a.raised THEN a ELSE Returned(user_info(a.value[1]))

require_system_admin(c) ==
  LET a == require_auth(c) IN
  IF a.raised THEN a
  ELSE LET context == a.value[1] IN
       IF context.user_type /= "system_admin"
         THEN HTTPException(403, "System Admin access required")
         ELSE Returned(user_info(context))

\* require_portal_admin testing the portal before the role
require_portal_admin_portal_first(c) ==
  LET a == require_auth(c) IN
  IF a.raised THEN a
  ELSE LET context == a.value[1] IN
       IF ~Truthy(context.portal_id)
         THEN HTTPException(400, "Portal context required")
         ELSE IF context.user_type /= "portal_admin"
           THEN HTTPException(403, "Portal Admin access required")
           ELSE Returned(user_info(context))

require_portal_admin(c) ==
  LET a == require_auth(c) IN
  IF a.raised THEN a
  ELSE LET context == a.value[1] IN
       IF context.user_type /= "portal_admin"
         THEN HTTPException(403, "Portal Admin access required")
         ELSE IF ~Truthy(context.portal_id)
           THEN HTTPException(400, "Portal context required")
           ELSE Returned(user_info(context))

require_client_admin(c) ==
  LET a == require_auth(c) IN
  IF a.raised THEN a
  ELSE LET context == a.value[1] IN
       IF context.user_type \notin {"client_admin", "portal_admin"}
         THEN HTTPException(403, "Client Admin or Portal Admin access required")
         ELSE IF ~Truthy(context.portal_id)
           THEN HTTPException(400, "Portal context required")
           ELSE Returned(user_info(context))

RoleGuards == {"require_system_admin", "require_portal_admin", "require_client_admin"}

call_guard(guard, c) ==
  CASE guard = "require_system_admin" -> require_system_admin(c)
    [] guard = "require_portal_admin" -> require_portal_admin(c)
    [] guard = "require_client_admin" -> require_client_admin(c)

NoGuardCall ==
  [ctx |-> None, guard |-> None, seen |-> NoAuth,
   result |-> [raised |-> FALSE, status_code |-> 0, detail |-> None, value |-> <<>>]]

(***************************************************************************)
(* db/portal.py                                                            *)
(***************************************************************************)
get_current_portal(c) == current_portal[c]

set_current_portal(store, c, portal_id) == [store EXCEPT ![c] = portal_id]

(***************************************************************************)
(* middleware/auth.py: AuthMiddleware                                      *)
(***************************************************************************)
\* is_public comparing whole paths instead of prefixes
is_public_exact(path) ==
  \E i \in 1..Len(DEV_PUBLIC_PATHS) : path = DEV_PUBLIC_PATHS[i]

is_public(path) ==
  \E i \in 1..Len(DEV_PUBLIC_PATHS) : startswith(path, DEV_PUBLIC_PATHS[i])

\* request.headers.get("Authorization", "") is empty or no "Bearer " header
no_bearer(auth_header) ==
  auth_header = <<>> \/ ~startswith(auth_header, BearerPrefix)

\* jose.jwt.decode(auth_header[7:], key, algorithms) is an external verifier:
\* the request carries what it answers for the request's token.
jwt_decode(request) == request.jwt

\* trusted letting a request without the header through
trusted_if_absent(secret, header) ==
  ~Truthy(secret) \/ header = secret \/ header = None

\* trusted = not self.gateway_secret or gateway_secret == self.gateway_secret
trusted(secret, header) == ~Truthy(secret) \/ header = secret

Identity(user_id, user_type, portal_id, portal_uuid) ==
  [kind |-> "identity", code |-> None, user_id |-> user_id,
   user_type |-> user_type, portal_id |-> portal_id, portal_uuid |-> portal_uuid]

Anonymous == Identity(None, None, None, None)

ShortCircuit(code) ==
  [kind |-> "response", code |-> code, user_id |-> None,
   user_type |-> None, portal_id |-> None, portal_uuid |-> None]

Untrusted ==
  [kind |-> "untrusted", code |-> None, user_id |-> None,
   user_type |-> None, portal_id |-> None, portal_uuid |-> None]

\* dev_extract answering 401 for every missing token, allow-listed or not
dev_extract_no_allow_list(request) ==
  IF no_bearer(request.authorization)
    THEN ShortCircuit("missing_token")
    ELSE LET payload == jwt_decode(request) IN
         CASE payload.kind = "ExpiredSignatureError" -> ShortCircuit("expired_token")
           [] payload.kind = "JWTError" -> Anonymous
           [] OTHER ->
                IF payload.type = "access"
                  THEN Identity(payload.sub, payload.user_type,
                                payload.portal_slug, payload.portal_id)
                  ELSE Anonymous

\* dev_extract with `except JWTError` ahead of `except ExpiredSignatureError`
\* (a subclass of JWTError): an expired token is only logged
dev_extract_jwterror_first(request) ==
  IF no_bearer(request.authorization)
    THEN IF ~is_public(request.path)
           THEN ShortCircuit("missing_token")
           ELSE Anonymous
    ELSE LET payload == jwt_decode(request) IN
         CASE payload.kind \in {"ExpiredSignatureError", "JWTError"} -> Anonymous
           [] OTHER ->
                IF payload.type = "access"
                  THEN Identity(payload.sub, payload.user_type,
                                payload.portal_slug, payload.portal_id)
                  ELSE Anonymous

\* dev_extract without the test of the 'type' claim on line 102
dev_extract_any_type(request) ==
  IF no_bearer(request.authorization)
    THEN IF ~is_public(request.path)
           THEN ShortCircuit("missing_token")
           ELSE Anonymous
    ELSE LET payload == jwt_decode(request) IN
         CASE payload.kind = "ExpiredSignatureError" -> ShortCircuit("expired_token")
           [] payload.kind = "JWTError" -> Anonymous
           [] OTHER -> Identity(payload.sub, payload.user_type,
                                payload.portal_slug, payload.portal_id)

\* dev_extract answering 401 for every token that fails verification
dev_extract_rejects_invalid(request) ==
  IF no_bearer(request.authorization)
    THEN IF ~is_public(request.path)
           THEN ShortCircuit("missing_token")
           ELSE Anonymous
    ELSE LET payload == jwt_decode(request) IN
         CASE payload.kind = "ExpiredSignatureError" -> ShortCircuit("expired_token")
           [] payload.kind = "JWTError" -> ShortCircuit("invalid_token")
           [] OTHER ->
                IF payload.type = "access"
                  THEN Identity(payload.sub, payload.user_type,
                                payload.portal_slug, payload.portal_id)
                  ELSE Anonymous

\* dispatch, lines 83-116: token-verification mode
dev_extract(request) ==
  IF no_bearer(request.authorization)
    THEN IF ~is_public(request.path)
           THEN ShortCircuit("missing_token")
           ELSE Anonymous
    ELSE LET payload == jwt_decode(request) IN
         CASE payload.kind = "ExpiredSignatureError" -> ShortCircuit("expired_token")
           [] payload.kind = "JWTError" -> Anonymous
           [] OTHER ->
                IF payload.type = "access"
                  THEN Identity(payload.sub, payload.user_type,
                                payload.portal_slug, payload.portal_id)
                  ELSE Anonymous

\* dispatch, lines 117-137: trusted-header mode
header_extract(secret, request) ==
  IF ~trusted(secret, request.x_gateway_secret)
    THEN Untrusted
    ELSE Identity(request.x_user_id, request.x_user_type,
                  request.x_portal_id, request.x_portal_uuid)

extract(dev, secret, request) ==
  IF dev THEN dev_extract(request) ELSE header_extract(secret, request)

\* The operands of line 142 the other way round: portal_id or tenant_id
effective_portal_prefers_portal(tenant_id, portal_id) == PyOr(portal_id, tenant_id)

\* effective_portal = tenant_id or portal_id (line 142)
effective_portal(tenant_id, portal_id) == PyOr(tenant_id, portal_id)

\* The keywords of the call on line 148
dispatch_keywords(id) ==
  [user_id |-> id.user_id, user_type |-> id.user_type,
   portal_id |-> id.portal_id, portal_uuid |-> id.portal_uuid]

\* The finally block without set_portal_context(None)
finally_main_auth_only(c, auth, portal, sent) ==
  [auth |-> clear_auth_context(auth, c), portal |-> portal, calls |-> sent]

\* The finally block of lines 156-158: the contexts it leaves and the
\* set_portal_context calls it adds.  set_portal_context is wired to
\* set_current_portal (db/portal.py, lines 11-19).
finally_main(c, auth, portal, sent) ==
  [auth |-> clear_auth_context(auth, c),
   portal |-> set_current_portal(portal, c, None),
   calls |-> Append(sent, None)]

\* The finally block of lines 131-132
finally_untrusted(c, auth, portal, sent) ==
  [auth |-> clear_auth_context(auth, c), portal |-> portal, calls |-> sent]

finally(c, site, auth, portal, sent) ==
  IF site = "untrusted" THEN finally_untrusted(c, auth, portal, sent)
                        ELSE finally_main(c, auth, portal, sent)

NoOutcome == [kind |-> "none", status |-> 0, code |-> None, by |-> None]

Response(status, code, by) ==
  [kind |-> "response", status |-> status, code |-> code, by |-> by]

Raised(exc, by) == [kind |-> "exception", status |-> 0, code |-> exc, by |-> by]

(***************************************************************************)
(* Requests                                                                *)
(***************************************************************************)
NoJwt ==
  [kind |-> "JWTError", type |-> None, sub |-> None, user_type |-> None,
   portal_slug |-> None, portal_id |-> None]

Expired == [NoJwt EXCEPT !.kind = "ExpiredSignatureError"]

Payloads ==
  [kind : {"payload"}, type : {"access", "refresh"}, sub : {None, "u1"},
   user_type : {None, "portal_admin", "bogus"}, portal_slug : {None, "tB"},
   portal_id : {None}]

JwtVerdicts == {NoJwt, Expired} \cup Payloads

DevPaths == {PathHealth, PathAgentsPrivate, PathUsers, PathAgentsNoSlash, PathDocsify}

\* Requests to a service running in token-verification mode
DevRequests ==
  { [path |-> p, authorization |-> a, jwt |-> j, x_gateway_secret |-> None,
     x_user_id |-> h[1], x_user_type |-> h[2], x_portal_id |-> pid,
     x_portal_uuid |-> None, x_tenant_id |-> tid] :
       p \in DevPaths,
       a \in {<<>>, HdrBasic, HdrLowerBearer},
       j \in {NoJwt},
       h \in {<<None, None>>, <<"u1", "system_admin">>},
       pid \in {None, "tB"}, tid \in {None, "tA"} }
  \cup
  { [path |-> p, authorization |-> HdrBearer, jwt |-> j, x_gateway_secret |-> None,
     x_user_id |-> h[1], x_user_type |-> h[2], x_portal_id |-> pid,
     x_portal_uuid |-> None, x_tenant_id |-> tid] :
       p \in {PathHealth, PathUsers},
       j \in JwtVerdicts,
       h \in {<<None, None>>, <<"u1", "system_admin">>},
       pid \in {None, "tB"}, tid \in {None, "tA"} }

\* Requests to a service running in trusted-header mode
HeaderRequests ==
  [path : {PathUsers}, authorization : {<<>>}, jwt : {NoJwt},
   x_gateway_secret : {None, "s3cret", "wrong"},
   x_user_id : {None, "", "u1"},
   x_user_type : {None, "", "portal_admin", "chat_user", "bogus"},
   x_portal_id : {None, "tB"}, x_portal_uuid : {None, "uuid-B"},
   x_tenant_id : {None, "", "tA"}]

Requests(dev) == IF dev THEN DevRequests ELSE HeaderRequests

NoRequest ==
  [path |-> <<>>, authorization |-> <<>>, jwt |-> NoJwt, x_gateway_secret |-> None,
   x_user_id |-> None, x_user_type |-> None, x_portal_id |-> None,
   x_portal_uuid |-> None, x_tenant_id |-> None]

\* The static configuration of the middleware: (dev_mode, gateway_secret)
Configs == {<<TRUE, "">>, <<FALSE, "">>, <<FALSE, "s3cret">>}

(***************************************************************************)
(* db/session.py: the engine cache                                         *)
(***************************************************************************)
\* The threads that call get_engine_for_portal (sync dependencies and
\* route functions run on the server's thread pool)
NCallers == 3

Callers == 1..NCallers

Portals == {"tA", "tB"}

\* Resolvers handed to init_portal_db: portal id -> URL, None or ""
Resolvers ==
  { [p \in Portals |-> IF p = "tA" THEN "db://tA" ELSE "db://tB"],
    [p \in Portals |-> IF p = "tA" THEN "db://tA" ELSE None],
    [p \in Portals |-> IF p = "tA" THEN "db://tA" ELSE ""] }

\* @lru_cache(maxsize=100)
maxsize == 100

NoCall == [pc |-> "ready", portal_id |-> None, result |-> 0, exc |-> None]

\* The cache as the wrapper sees it: does it hold key, and which result
cache_has(cache, key) == \E i \in 1..Len(cache) : cache[i].key = key

cache_get(cache, key) ==
  (CHOOSE e \in {cache[i] : i \in 1..Len(cache)} : e.key = key).result

without(cache, key) ==
  LET keep == {i \in 1..Len(cache) : cache[i].key /= key}
      RECURSIVE pick(_)
      pick(i) == IF i > Len(cache) THEN <<>>
                 ELSE IF i \in keep THEN <<cache[i]>> \o pick(i + 1)
                 ELSE pick(i + 1)
  IN pick(1)

\* A hit moves the entry to the most recently used end
cache_touch(cache, key) ==
  Append(without(cache, key), [key |-> key, result |-> cache_get(cache, key)])

\* A cache that makes room by dropping its most recently used entry
cache_store_drops_newest(cache, key, result) ==
  IF cache_has(cache, key) THEN cache
  ELSE IF Len(cache) >= maxsize
    THEN Append(SubSeq(cache, 1, Len(cache) - 1), [key |-> key, result |-> result])
    ELSE Append(cache, [key |-> key, result |-> result])

\* After the wrapped function returned: a key stored meanwhile is kept as it
\* is, a full cache drops its least recently used entry, then the new entry
\* is appended.
cache_store(cache, key, result) ==
  IF cache_has(cache, key) THEN cache
  ELSE IF Len(cache) >= maxsize
    THEN Append(Tail(cache), [key |-> key, result |-> result])
    ELSE Append(cache, [key |-> key, result |-> result])

\* A clear that spares the most recently used entry
cache_clear_keeps_newest(cache) ==
  IF cache = <<>> THEN <<>> ELSE <<cache[Len(cache)]>>

\* get_engine_for_portal.cache_clear()
cache_clear(cache) == <<>>

\* get_engine_for_portal testing `db_url is None` in place of `not db_url`
engine_url_none_only(res, portal_id) ==
  IF res = <<>> THEN [exc |-> "RuntimeError", url |-> None]
  ELSE LET db_url == res[1][portal_id] IN
       IF db_url = None THEN [exc |-> "ValueError", url |-> None]
       ELSE [exc |-> None, url |-> db_url]

\* The body of get_engine_for_portal, lines 70-85: what it raises, or the
\* URL it hands to create_engine
engine_url(res, portal_id) ==
  IF res = <<>> THEN [exc |-> "RuntimeError", url |-> None]
  ELSE LET db_url == res[1][portal_id] IN
       IF ~Truthy(db_url) THEN [exc |-> "ValueError", url |-> None]
       ELSE [exc |-> None, url |-> db_url]

(***************************************************************************)
(* db/session.py and db/public.py: sessions.  A helper is used by a caller *)
(* thread as a scope: entered, the body runs with the session, then the    *)
(* helper's exit code runs.                                                *)
(***************************************************************************)
PublicUrl == "db://public"

DbUrls == {"db://tA", "db://tB", PublicUrl}

EngineHelpers == {"get_engine_for_portal"}

PortalSessionHelpers == {"get_portal_db", "get_db_for_portal", "PortalSession"}

PublicSessionHelpers == {"get_public_db", "PublicSession"}

\* How the body of a scope ends: it returns, raises an Exception, or is
\* left with a BaseException that is no Exception (GeneratorExit when the
\* generator is closed early, CancelledError, KeyboardInterrupt)
ExitKinds == {"normal", "Exception", "BaseException"}

NoPortalContext == "RuntimeError: No portal context set"

PublicNotInitialized == "RuntimeError: Public database not initialized"

NoScope ==
  [pc |-> "idle", helper |-> None, portal_id |-> None, engine |-> 0, url |-> None,
   cached |-> FALSE, pending |-> FALSE, ops |-> <<>>, closed |-> FALSE,
   exit |-> None, raised |-> None]

\* The context a caller thread runs in
ScopeCtx(s) == IF s = 1 THEN "reqA" ELSE "reqB"

\* get_public_engine, lines 76-80
get_public_engine(pub) ==
  IF pub = <<>> THEN [exc |-> PublicNotInitialized, url |-> None]
                ELSE [exc |-> None, url |-> pub[1]]

\* A session factory created on first use when init_public_db was not called
public_session_factory_lazy(pub) == [exc |-> None, url |-> PublicUrl]

\* The test of _SessionLocal in get_public_db (lines 98-102) and in
\* PublicSession.__enter__ (lines 131-135)
public_session_factory(pub) ==
  IF pub = <<>> THEN [exc |-> PublicNotInitialized, url |-> None]
                ELSE [exc |-> None, url |-> pub[1]]

\* What the exit code of a helper does with the session: the calls it makes
\* in order, whether the session ends closed, whether pending work is
\* committed, and the exception that leaves the scope (None, the body's,
\* or the one of the failing commit or rollback).
ExitResult(ops, closed, committed, raised) ==
  [ops |-> ops, closed |-> closed, committed |-> committed, raised |-> raised]

body_exc(kind) == IF kind = "normal" THEN None ELSE "body"

\* The tenant generators with the exit code of get_public_db
portal_generator_exit_commits(kind) ==
  IF kind = "normal"
    THEN ExitResult(<<"commit", "close">>, TRUE, TRUE, None)
    ELSE ExitResult(<<"rollback", "close">>, TRUE, FALSE, "body")

\* get_portal_db lines 108-111, get_db_for_portal lines 126-129:
\* try: yield db / finally: db.close()
portal_generator_exit(kind) ==
  ExitResult(<<"close">>, TRUE, FALSE, body_exc(kind))

\* PortalSession.__exit__, lines 155-158
portal_session_exit(kind) ==
  ExitResult(<<"close">>, TRUE, FALSE, body_exc(kind))

\* get_public_db, lines 105-112: try: yield db; db.commit() /
\* except Exception: db.rollback(); raise / finally: db.close()
public_generator_exit(kind, commit_ok, rollback_ok) ==
  CASE kind = "normal" /\ commit_ok ->
         ExitResult(<<"commit", "close">>, TRUE, TRUE, None)
    [] kind = "normal" /\ ~commit_ok /\ rollback_ok ->
         ExitResult(<<"commit_failed", "rollback", "close">>, TRUE, FALSE, "commit")
    [] kind = "normal" /\ ~commit_ok /\ ~rollback_ok ->
         ExitResult(<<"commit_failed", "rollback_failed", "close">>, TRUE, FALSE,
                    "rollback")
    [] kind = "Exception" /\ rollback_ok ->
         ExitResult(<<"rollback", "close">>, TRUE, FALSE, "body")
    [] kind = "Exception" /\ ~rollback_ok ->
         ExitResult(<<"rollback_failed", "close">>, TRUE, FALSE, "rollback")
    [] OTHER ->
         \* no except clause matches: only the finally block runs
         ExitResult(<<"close">>, TRUE, FALSE, "body")

\* PublicSession.__exit__ without the test of exc_type
public_session_exit_always_commits(kind, commit_ok, rollback_ok) ==
  IF commit_ok
    THEN ExitResult(<<"commit", "close">>, TRUE, TRUE, body_exc(kind))
    ELSE ExitResult(<<"commit_failed">>, FALSE, FALSE, "commit")

\* PublicSession.__exit__, lines 139-146: commit or rollback, then close,
\* one statement after the other
public_session_exit(kind, commit_ok, rollback_ok) ==
  CASE kind = "normal" /\ commit_ok ->
         ExitResult(<<"commit", "close">>, TRUE, TRUE, None)
    [] kind = "normal" /\ ~commit_ok ->
         ExitResult(<<"commit_failed">>, FALSE, FALSE, "commit")
    [] kind /= "normal" /\ rollback_ok ->
         ExitResult(<<"rollback", "close">>, TRUE, FALSE, "body")
    [] OTHER ->
         ExitResult(<<"rollback_failed">>, FALSE, FALSE, "rollback")

helper_exit(helper, kind, commit_ok, rollback_ok) ==
  CASE helper \in {"get_portal_db", "get_db_for_portal"} -> portal_generator_exit(kind)
    [] helper = "PortalSession" -> portal_session_exit(kind)
    [] helper = "get_public_db" -> public_generator_exit(kind, commit_ok, rollback_ok)
    [] helper = "PublicSession" -> public_session_exit(kind, commit_ok, rollback_ok)

(***************************************************************************)
(* Initial state: every ContextVar at its default, the middleware          *)
(* constructed with one of the configurations, no request dispatched yet.  *)
(***************************************************************************)
NoApiCall == [ctx |-> None, user_type |-> None, exc |-> None, unchanged |-> TRUE]

\* PortalContext objects of a job and the depth to which it nests them
NPortalContexts == 2

MaxDepth == 3

PortalContextObjs == 1..NPortalContexts

\* PortalContext(portal_id): the argument each object was constructed with
PortalContextArg(o) == IF o = 1 THEN "tA" ELSE IF o = 2 THEN "tB" ELSE None

\* The context the job runs in
JobCtx == "reqB"

NoExit == [obj |-> 0, before |-> None, after |-> None, kind |-> None,
           suppressed |-> FALSE]

\* __init__, lines 78-80: previous_portal is None; no scope entered
NoPortalContexts ==
  [previous_portal |-> [o \in PortalContextObjs |-> None],
   stack |-> <<>>, raising |-> FALSE, last |-> NoExit]

\* __enter__, lines 82-85
PortalContext_enter(previous_portal, store, c, o) ==
  [previous_portal |-> [previous_portal EXCEPT ![o] = store[c]],
   store |-> set_current_portal(store, c, PortalContextArg(o))]

\* __exit__, lines 87-89: restores self.previous_portal and returns False
PortalContext_exit(previous_portal, store, c, o) ==
  [store |-> set_current_portal(store, c, previous_portal[o]),
   suppressed |-> FALSE]

Init ==
  /\ auth_context = [c \in Ctxs |-> NoAuth]
  /\ current_portal = [c \in Ctxs |-> None]
  /\ auth_set_for = [c \in Ctxs |-> NoAuth]
  /\ portal_set_for = [c \in Ctxs |-> None]
  /\ api_last = NoApiCall
  /\ \E cfg \in Configs : dev_mode = cfg[1] /\ gateway_secret = cfg[2]
  /\ pc = "idle"
  /\ req = NoRequest
  /\ via = "none"
  /\ outcome = NoOutcome
  /\ portal_calls = <<>>
  /\ resolver = <<>>
  /\ engine_cache = <<>>
  /\ engines = <<>>
  /\ calls = [t \in Callers |-> NoCall]
  /\ guard_last = NoGuardCall
  /\ public_db = <<>>
  /\ scopes = [t \in Callers |-> NoScope]
  /\ database = [u \in DbUrls |-> {}]
  /\ caller_commits = [u \in DbUrls |-> {}]
  /\ portal_contexts = NoPortalContexts

(***************************************************************************)
(* Direct calls of the context API by code running in context c            *)
(***************************************************************************)
ApiSetAuthContext(c, user_id, user_type, portal_id) ==
  LET r == set_auth_context(auth_context, c, user_id, user_type, portal_id) IN
  /\ auth_context' = r.store
  /\ auth_set_for' = IF r.exc = None
                       THEN [auth_set_for EXCEPT
                               ![c] = <<AuthContext(user_id, user_type, portal_id)>>]
                       ELSE auth_set_for
  /\ api_last' = [ctx |-> c, user_type |-> user_type, exc |-> r.exc,
                  unchanged |-> (r.store = auth_context)]
  /\ UNCHANGED <<current_portal, portal_set_for, mwVars, dbVars, guardVars, sessVars, nestVars>>

ApiClearAuthContext(c) ==
  /\ auth_context' = clear_auth_context(auth_context, c)
  /\ UNCHANGED <<current_portal, auth_set_for, portal_set_for, api_last, mwVars, dbVars, guardVars, sessVars, nestVars>>

ApiSetCurrentPortal(c, portal_id) ==
  /\ current_portal' = set_current_portal(current_portal, c, portal_id)
  /\ portal_set_for' = [portal_set_for EXCEPT ![c] = portal_id]
  /\ UNCHANGED <<auth_context, auth_set_for, api_last, mwVars, dbVars, guardVars, sessVars, nestVars>>

(***************************************************************************)
(* db/portal.py: PortalContext used by a job as `with` blocks, properly    *)
(* nested.  Each scope the job is in is kept with the portal current just  *)
(* before it was entered.                                                  *)
(***************************************************************************)
\* `with obj:` is reached; obj may be one the job is already inside
PortalContextEnter(o) ==
  /\ ~portal_contexts.raising
  /\ Len(portal_contexts.stack) < MaxDepth
  /\ LET r == PortalContext_enter(portal_contexts.previous_portal,
                                  current_portal, JobCtx, o) IN
     /\ current_portal' = r.store
     /\ portal_set_for' = [portal_set_for EXCEPT ![JobCtx] = PortalContextArg(o)]
     /\ portal_contexts' =
          [portal_contexts EXCEPT
             !.previous_portal = r.previous_portal,
             !.stack = Append(@, [obj |-> o,
                                  before |-> get_current_portal(JobCtx)])]
  /\ UNCHANGED <<auth_context, auth_set_for, api_last, mwVars, dbVars, guardVars, sessVars>>

\* The body of the innermost scope ends, normally or by an exception raised
\* in it or passing through it, and __exit__ runs
PortalContextExit(kind) ==
  /\ portal_contexts.stack /= <<>>
  /\ portal_contexts.raising => kind = "Exception"
  /\ LET stack == portal_contexts.stack
         top == stack[Len(stack)]
         r == PortalContext_exit(portal_contexts.previous_portal,
                                 current_portal, JobCtx, top.obj)
     IN
     /\ current_portal' = r.store
     /\ portal_set_for' = [portal_set_for EXCEPT
                             ![JobCtx] = portal_contexts.previous_portal[top.obj]]
     /\ portal_contexts' =
          [portal_contexts EXCEPT
             !.stack = SubSeq(stack, 1, Len(stack) - 1),
             !.raising = kind /= "normal" /\ ~r.suppressed,
             !.last = [obj |-> top.obj, before |-> top.before,
                       after |-> r.store[JobCtx], kind |-> kind,
                       suppressed |-> r.suppressed]]
  /\ UNCHANGED <<auth_context, auth_set_for, api_last, mwVars, dbVars, guardVars, sessVars>>

\* The job's own try/except around a scope catches the exception
PortalContextCatch ==
  /\ portal_contexts.raising
  /\ portal_contexts' = [portal_contexts EXCEPT !.raising = FALSE]
  /\ UNCHANGED <<ctxVars, api_last, mwVars, dbVars, guardVars, sessVars>>

\* A job nests scopes of its PortalContext objects; between scopes it is
\* given another portal through set_current_portal
NestingNext ==
  \/ \E p \in {None, "tA", "tB"} :
        /\ portal_contexts.stack = <<>> /\ ~portal_contexts.raising
        /\ ApiSetCurrentPortal(JobCtx, p)
  \/ \E o \in PortalContextObjs : PortalContextEnter(o)
  \/ \E kind \in {"normal", "Exception"} : PortalContextExit(kind)
  \/ PortalContextCatch

(***************************************************************************)
(* AuthMiddleware.dispatch in the worker's context.  Everything before     *)
(* `await call_next(request)` runs without suspension: one step.           *)
(***************************************************************************)
DispatchBefore(request) ==
  /\ pc = "idle"
  /\ req' = request
  /\ UNCHANGED <<dev_mode, gateway_secret, auth_set_for, api_last, dbVars, guardVars, sessVars, nestVars>>
  /\ LET id == extract(dev_mode, gateway_secret, request) IN
     CASE id.kind = "response" ->
            \* lines 93-96 and 111-114: return JSONResponse(status_code=401, ...)
            /\ pc' = "done"
            /\ via' = "none"
            /\ outcome' = Response(401, id.code, "middleware")
            /\ portal_calls' = <<>>
            /\ UNCHANGED <<auth_context, current_portal, portal_set_for>>
       [] id.kind = "untrusted" ->
            \* lines 122-129: call_next at once
            /\ pc' = "handler"
            /\ via' = "untrusted"
            /\ outcome' = NoOutcome
            /\ portal_calls' = <<>>
            /\ UNCHANGED <<auth_context, current_portal, portal_set_for>>
       [] OTHER ->
            \* lines 139-154
            LET eff == effective_portal(request.x_tenant_id, id.portal_id)
                r == IF Truthy(id.user_id) /\ Truthy(id.user_type)
                       THEN call_set_auth_context(auth_context, Worker,
                                                  dispatch_keywords(id))
                       ELSE [exc |-> None, store |-> auth_context]
            IN
            /\ current_portal' = IF Truthy(eff)
                                   THEN set_current_portal(current_portal, Worker, eff)
                                   ELSE current_portal
            /\ portal_set_for' = IF Truthy(eff)
                                   THEN [portal_set_for EXCEPT ![Worker] = eff]
                                   ELSE portal_set_for
            /\ portal_calls' = IF Truthy(eff) THEN <<eff>> ELSE <<>>
            /\ auth_context' = r.store
            /\ IF r.exc /= None
                 THEN /\ pc' = "done"
                      /\ via' = "none"
                      /\ outcome' = Raised(r.exc, "middleware")
                 ELSE /\ pc' = "handler"
                      /\ via' = "main"
                      /\ outcome' = NoOutcome

\* The handler's own responses, 401 among them (a guard's HTTPException is
\* turned into a response below the middleware).
HandlerStatuses == {200, 401}

AfterHandler(result) ==
  /\ pc = "handler"
  /\ LET f == finally(Worker, via, auth_context, current_portal, portal_calls) IN
     /\ auth_context' = f.auth
     /\ current_portal' = f.portal
     /\ portal_calls' = f.calls
     /\ portal_set_for' = IF via = "main"
                            THEN [portal_set_for EXCEPT ![Worker] = None]
                            ELSE portal_set_for
  /\ pc' = "done"
  /\ outcome' = result
  /\ UNCHANGED <<dev_mode, gateway_secret, req, via, auth_set_for, api_last, dbVars, guardVars, sessVars, nestVars>>

\* `response = await call_next(request); return response`
HandlerReturns(status) == AfterHandler(Response(status, None, "handler"))

\* call_next raises: the exception leaves dispatch through the finally block
HandlerRaises == AfterHandler(Raised("HandlerError", "handler"))

\* dispatch has handed its response or exception to the server; the worker
\* takes the next request in the same context, with the ContextVars as
\* dispatch left them.
Complete ==
  /\ pc = "done"
  /\ pc' = "idle"
  /\ req' = NoRequest
  /\ via' = "none"
  /\ outcome' = NoOutcome
  /\ portal_calls' = <<>>
  /\ UNCHANGED <<dev_mode, gateway_secret, ctxVars, api_last, dbVars, guardVars, sessVars, nestVars>>

MwNext ==
  \/ \E request \in Requests(dev_mode) : DispatchBefore(request)
  \/ \E status \in HandlerStatuses : HandlerReturns(status)
  \/ HandlerRaises
  \/ Complete

ApiUserIds == {"u1", "u2"}

ApiUserTypes == {"system_admin", "chat_user", "bogus"}

ApiPortalIds == {None, "", "tA"}

CtxNext ==
  \/ \E c \in ReqCtxs, u \in ApiUserIds, t \in ApiUserTypes, p \in ApiPortalIds :
        ApiSetAuthContext(c, u, t, p)
  \/ \E c \in ReqCtxs : ApiClearAuthContext(c)
  \/ \E c \in ReqCtxs, p \in {None, "tA", "tB"} : ApiSetCurrentPortal(c, p)

\* A role guard resolved as a dependency of a route in context c
Guard(c, guard) ==
  /\ guard_last' = [ctx |-> c, guard |-> guard, seen |-> get_auth_context(c),
                    result |-> call_guard(guard, c)]
  /\ UNCHANGED <<ctxVars, api_last, mwVars, dbVars, sessVars, nestVars>>

\* The guarded routes run in context reqA under every role, with and without
\* a portal id; a system admin is signed in and out in context reqB.
GuardNext ==
  \/ \E t \in UserType, p \in {None, "tA"} : ApiSetAuthContext("reqA", "u1", t, p)
  \/ ApiSetAuthContext("reqB", "u2", "system_admin", None)
  \/ \E c \in ReqCtxs : ApiClearAuthContext(c)
  \/ \E p \in {None, "tA"} : ApiSetCurrentPortal("reqA", p)
  \/ \E g \in RoleGuards : Guard("reqA", g)

ApiNext ==
  \/ MwNext
  \/ \E t \in {"chat_user", "bogus"} : ApiSetAuthContext("reqA", "u1", t, None)
  \/ ApiClearAuthContext("reqA")

(***************************************************************************)
(* db/session.py: init_portal_db and get_engine_for_portal.  The cache     *)
(* wrapper looks the key up, calls the function on a miss with the cache   *)
(* unlocked, and stores the result afterwards; other threads run between   *)
(* these steps.                                                            *)
(***************************************************************************)
InitPortalDb(get_portal_database_url) ==
  /\ resolver' = <<get_portal_database_url>>
  /\ UNCHANGED <<engine_cache, engines, calls, ctxVars, api_last, mwVars, guardVars, sessVars, nestVars>>

\* get_engine_for_portal(portal_id) is called: the cache lookup
EngineLookup(t, portal_id) ==
  /\ calls[t].pc = "ready"
  /\ IF cache_has(engine_cache, portal_id)
       THEN /\ calls' = [calls EXCEPT ![t] =
                           [pc |-> "returned", portal_id |-> portal_id,
                            result |-> cache_get(engine_cache, portal_id),
                            exc |-> None]]
            /\ engine_cache' = cache_touch(engine_cache, portal_id)
       ELSE /\ calls' = [calls EXCEPT ![t] =
                           [pc |-> "miss", portal_id |-> portal_id,
                            result |-> 0, exc |-> None]]
            /\ UNCHANGED engine_cache
  /\ UNCHANGED <<resolver, engines, ctxVars, api_last, mwVars, guardVars, sessVars, nestVars>>

\* The function body runs: it raises, or create_engine returns a new engine
EngineCreate(t) ==
  /\ calls[t].pc = "miss"
  /\ LET r == engine_url(resolver, calls[t].portal_id) IN
     IF r.exc /= None
       THEN /\ calls' = [calls EXCEPT ![t].pc = "raised", ![t].exc = r.exc]
            /\ UNCHANGED engines
       ELSE /\ engines' = Append(engines, [portal_id |-> calls[t].portal_id,
                                           url |-> r.url])
            /\ calls' = [calls EXCEPT ![t].pc = "created",
                                      ![t].result = Len(engines) + 1]
  /\ UNCHANGED <<resolver, engine_cache, ctxVars, api_last, mwVars, guardVars, sessVars, nestVars>>

\* The wrapper stores the result and returns it to the caller
EngineStore(t) ==
  /\ calls[t].pc = "created"
  /\ engine_cache' = cache_store(engine_cache, calls[t].portal_id, calls[t].result)
  /\ calls' = [calls EXCEPT ![t].pc = "returned"]
  /\ UNCHANGED <<resolver, engines, ctxVars, api_last, mwVars, guardVars, sessVars, nestVars>>

\* clear_engine_cache, lines 161-166: get_engine_for_portal.cache_clear()
ClearEngineCache ==
  /\ engine_cache' = cache_clear(engine_cache)
  /\ UNCHANGED <<resolver, engines, calls, ctxVars, api_last, mwVars, guardVars, sessVars, nestVars>>

FirstAccessNext ==
  \/ \E f \in Resolvers : InitPortalDb(f)
  \/ \E t \in Callers, p \in Portals : EngineLookup(t, p)
  \/ \E t \in Callers : EngineCreate(t)
  \/ \E t \in Callers : EngineStore(t)

(***************************************************************************)
(* db/session.py and db/public.py: the session helpers used by caller      *)
(* threads.  A tenant helper calls get_engine_for_portal, whose steps are  *)
(* the ones above; the body of the scope and the helper's exit code follow.*)
(***************************************************************************)
\* init_public_db, lines 51-62
InitPublicDb ==
  /\ public_db' = <<PublicUrl>>
  /\ UNCHANGED <<scopes, database, caller_commits,
                 ctxVars, api_last, mwVars, dbVars, guardVars, nestVars>>

\* get_public_engine()
PublicEngineCall(s) ==
  /\ scopes[s].pc = "idle"
  /\ LET r == get_public_engine(public_db) IN
     scopes' = [scopes EXCEPT ![s] =
                  [NoScope EXCEPT !.pc = "exited", !.helper = "get_public_engine",
                                  !.url = r.url, !.raised = r.exc]]
  /\ UNCHANGED <<public_db, database, caller_commits,
                 ctxVars, api_last, mwVars, dbVars, guardVars, nestVars>>

\* get_public_db() up to its yield, PublicSession().__enter__
PublicEnter(s, helper) ==
  /\ scopes[s].pc = "idle"
  /\ LET r == public_session_factory(public_db) IN
     scopes' = [scopes EXCEPT ![s] =
                  IF r.exc /= None
                    THEN [NoScope EXCEPT !.pc = "exited", !.helper = helper,
                                         !.raised = r.exc]
                    ELSE [NoScope EXCEPT !.pc = "body", !.helper = helper,
                                         !.url = r.url]]
  /\ UNCHANGED <<public_db, database, caller_commits,
                 ctxVars, api_last, mwVars, dbVars, guardVars, nestVars>>

\* A tenant helper is entered: get_portal_db reads the portal of its context
\* (lines 98-102), the others are given it; next comes get_engine_for_portal
PortalEnter(s, helper, arg) ==
  /\ scopes[s].pc = "idle"
  /\ calls[s].pc = "ready"
  /\ LET portal_id == IF helper = "get_portal_db"
                        THEN get_current_portal(ScopeCtx(s))
                        ELSE arg
     IN scopes' = [scopes EXCEPT ![s] =
                     IF helper = "get_portal_db" /\ ~Truthy(portal_id)
                       THEN [NoScope EXCEPT !.pc = "exited", !.helper = helper,
                                            !.raised = NoPortalContext]
                       ELSE [NoScope EXCEPT !.pc = "engine", !.helper = helper,
                                            !.portal_id = portal_id]]
  /\ UNCHANGED <<public_db, database, caller_commits,
                 ctxVars, api_last, mwVars, dbVars, guardVars, nestVars>>

\* The helper's call of get_engine_for_portal
HelperEngineLookup(s) ==
  /\ scopes[s].pc = "engine"
  /\ EngineLookup(s, scopes[s].portal_id)

\* get_engine_for_portal has returned or raised: the exception leaves the
\* helper, or sessionmaker(bind=engine)() opens the session
EngineReturn(s) ==
  /\ scopes[s].pc = "engine"
  /\ calls[s].pc \in {"returned", "raised"}
  /\ calls' = [calls EXCEPT ![s] = NoCall]
  /\ LET sc == scopes[s]
         engine == calls[s].result
     IN scopes' = [scopes EXCEPT ![s] =
          IF calls[s].pc = "raised"
            THEN [sc EXCEPT !.pc = "exited", !.raised = calls[s].exc]
          ELSE IF sc.helper \in EngineHelpers
            THEN [sc EXCEPT !.pc = "exited", !.engine = engine,
                            !.url = engines[engine].url]
            ELSE [sc EXCEPT !.pc = "body", !.engine = engine,
                            !.url = engines[engine].url,
                            !.cached = /\ cache_has(engine_cache, sc.portal_id)
                                       /\ cache_get(engine_cache, sc.portal_id)
                                            = engine]]
  /\ UNCHANGED <<resolver, engine_cache, engines, public_db, database,
                 caller_commits, ctxVars, api_last, mwVars, guardVars, nestVars>>

\* The body writes through the session: db.add(...), db.flush()
Write(s) ==
  /\ scopes[s].pc = "body"
  /\ ~scopes[s].pending
  /\ scopes' = [scopes EXCEPT ![s].pending = TRUE]
  /\ UNCHANGED <<public_db, database, caller_commits,
                 ctxVars, api_last, mwVars, dbVars, guardVars, nestVars>>

\* The body calls db.commit()
CallerCommit(s) ==
  /\ scopes[s].pc = "body"
  /\ scopes[s].pending
  /\ scopes' = [scopes EXCEPT ![s].pending = FALSE]
  /\ database' = [database EXCEPT ![scopes[s].url] = @ \cup {s}]
  /\ caller_commits' = [caller_commits EXCEPT ![scopes[s].url] = @ \cup {s}]
  /\ UNCHANGED <<public_db, ctxVars, api_last, mwVars, dbVars, guardVars, nestVars>>

\* The body ends and the helper's exit code runs.  Work still pending after
\* it is never committed: rollback() and close() discard it.
ScopeExit(s, kind, commit_ok, rollback_ok) ==
  /\ scopes[s].pc = "body"
  /\ LET r == helper_exit(scopes[s].helper, kind, commit_ok, rollback_ok) IN
     /\ database' = IF r.committed /\ scopes[s].pending
                      THEN [database EXCEPT ![scopes[s].url] = @ \cup {s}]
                      ELSE database
     /\ scopes' = [scopes EXCEPT ![s] =
          [@ EXCEPT !.pc = "exited", !.ops = r.ops, !.closed = r.closed,
                    !.exit = kind, !.raised = r.raised,
                    !.pending = @ /\ ~r.committed]]
  /\ UNCHANGED <<public_db, caller_commits,
                 ctxVars, api_last, mwVars, dbVars, guardVars, nestVars>>

\* The caller is done with the helper; the thread takes up other work
ScopeDone(s) ==
  /\ scopes[s].pc = "exited"
  /\ scopes' = [scopes EXCEPT ![s] = NoScope]
  /\ UNCHANGED <<public_db, database, caller_commits,
                 ctxVars, api_last, mwVars, dbVars, guardVars, nestVars>>

NScopes == 2

Scopes == 1..NScopes

\* Thread 1 serves requests with get_portal_db in context reqA, whose portal
\* changes at any time; the other threads are jobs using the helpers that
\* are given the portal.  The resolver is installed and replaced at any
\* time.  Bodies only end.
TenantRouterNext ==
  \/ \E f \in Resolvers : InitPortalDb(f)
  \/ \E p \in {None, "tA", "tB"} : ApiSetCurrentPortal(ScopeCtx(1), p)
  \/ PortalEnter(1, "get_portal_db", None)
  \/ \E s \in Scopes \ {1}, p \in Portals,
        h \in EngineHelpers \cup (PortalSessionHelpers \ {"get_portal_db"}) :
        PortalEnter(s, h, p)
  \/ \E s \in Scopes : HelperEngineLookup(s)
  \/ \E s \in Scopes : EngineCreate(s)
  \/ \E s \in Scopes : EngineStore(s)
  \/ \E s \in Scopes : EngineReturn(s)
  \/ \E s \in Scopes : ScopeExit(s, "normal", TRUE, TRUE)
  \/ \E s \in Scopes : ScopeDone(s)

\* The resolver used once the databases are set up
BothConfigured == [p \in Portals |-> IF p = "tA" THEN "db://tA" ELSE "db://tB"]

\* Threads using every operation of the tenant router (for tenant tA) and of
\* the control-plane accessor, before and after the two initialisations.
\* Bodies only end.
RouterNext ==
  \/ InitPortalDb(BothConfigured)
  \/ InitPublicDb
  \/ ApiSetCurrentPortal(ScopeCtx(1), "tA")
  \/ PortalEnter(1, "get_portal_db", None)
  \/ \E s \in Scopes \ {1},
        h \in EngineHelpers \cup (PortalSessionHelpers \ {"get_portal_db"}) :
        PortalEnter(s, h, "tA")
  \/ \E s \in Scopes : HelperEngineLookup(s)
  \/ \E s \in Scopes : EngineCreate(s)
  \/ \E s \in Scopes : EngineStore(s)
  \/ \E s \in Scopes : EngineReturn(s)
  \/ \E s \in Scopes : PublicEngineCall(s)
  \/ \E s \in Scopes, h \in PublicSessionHelpers : PublicEnter(s, h)
  \/ \E s \in Scopes : ScopeExit(s, "normal", TRUE, TRUE)
  \/ \E s \in Scopes : ScopeDone(s)

\* Thread 1 serves requests of tenant tA with the dependencies
\* get_portal_db and get_public_db; the other threads are jobs using
\* get_db_for_portal, PortalSession and PublicSession.  Bodies write,
\* commit or not, and end in every way; commit and rollback may fail.
SessionNext ==
  \/ InitPortalDb(BothConfigured)
  \/ InitPublicDb
  \/ ApiSetCurrentPortal(ScopeCtx(1), "tA")
  \/ PortalEnter(1, "get_portal_db", None)
  \/ PublicEnter(1, "get_public_db")
  \/ \E s \in Scopes \ {1}, h \in PortalSessionHelpers \ {"get_portal_db"} :
        PortalEnter(s, h, "tA")
  \/ \E s \in Scopes \ {1} : PublicEnter(s, "PublicSession")
  \/ \E s \in Scopes : HelperEngineLookup(s)
  \/ \E s \in Scopes : EngineCreate(s)
  \/ \E s \in Scopes : EngineStore(s)
  \/ \E s \in Scopes : EngineReturn(s)
  \/ \E s \in Scopes : Write(s)
  \/ \E s \in Scopes : CallerCommit(s)
  \/ \E s \in Scopes, k \in ExitKinds, c \in BOOLEAN, r \in BOOLEAN :
        ScopeExit(s, k, c, r)
  \/ \E s \in Scopes : ScopeDone(s)

\* Threads working on tenant tA only
TenantSessionNext ==
  \/ InitPortalDb(BothConfigured)
  \/ ApiSetCurrentPortal(ScopeCtx(1), "tA")
  \/ PortalEnter(1, "get_portal_db", None)
  \/ \E s \in Scopes \ {1}, h \in PortalSessionHelpers \ {"get_portal_db"} :
        PortalEnter(s, h, "tA")
  \/ \E s \in Scopes : HelperEngineLookup(s)
  \/ \E s \in Scopes : EngineCreate(s)
  \/ \E s \in Scopes : EngineStore(s)
  \/ \E s \in Scopes : EngineReturn(s)
  \/ \E s \in Scopes : Write(s)
  \/ \E s \in Scopes : CallerCommit(s)
  \/ \E s \in Scopes, k \in {"normal", "Exception"} : ScopeExit(s, k, TRUE, TRUE)
  \/ \E s \in Scopes : ScopeDone(s)

\* Threads working on the control plane only
PublicSessionNext ==
  \/ InitPublicDb
  \/ \E s \in Scopes, h \in PublicSessionHelpers : PublicEnter(s, h)
  \/ \E s \in Scopes : Write(s)
  \/ \E s \in Scopes : CallerCommit(s)
  \/ \E s \in Scopes, k \in ExitKinds, c \in BOOLEAN, r \in BOOLEAN :
        ScopeExit(s, k, c, r)
  \/ \E s \in Scopes : ScopeDone(s)

\* The cache is cleared while fewer engines than this were created
MaxEnginesCleared == 3

\* Thread 1 opens tenant sessions and thread 2 calls get_engine_for_portal
\* while the cache is cleared at any time, also with a session open and
\* calls under way
ClearNext ==
  \/ InitPortalDb(BothConfigured)
  \/ \E p \in Portals : PortalEnter(1, "PortalSession", p)
  \/ \E p \in Portals : PortalEnter(2, "get_engine_for_portal", p)
  \/ \E s \in Scopes : HelperEngineLookup(s)
  \/ \E s \in Scopes : EngineCreate(s)
  \/ \E s \in Scopes : EngineStore(s)
  \/ \E s \in Scopes : EngineReturn(s)
  \/ \E s \in Scopes : Write(s)
  \/ \E s \in Scopes : ScopeExit(s, "normal", TRUE, TRUE)
  \/ \E s \in Scopes : ScopeDone(s)
  \/ Len(engines) < MaxEnginesCleared /\ ClearEngineCache

\* Job threads that open tenant sessions and call get_engine_for_portal one
\* at a time: each call has returned before the next call or a clear starts
TurnsNext ==
  \/ InitPortalDb(BothConfigured)
  \/ \E s \in Scopes, p \in Portals, h \in {"get_engine_for_portal", "PortalSession"} :
        /\ \A o \in Scopes : scopes[o].pc /= "engine"
        /\ PortalEnter(s, h, p)
  \/ \E s \in Scopes : HelperEngineLookup(s)
  \/ \E s \in Scopes : EngineCreate(s)
  \/ \E s \in Scopes : EngineStore(s)
  \/ \E s \in Scopes : EngineReturn(s)
  \/ \E s \in Scopes : Write(s)
  \/ \E s \in Scopes : ScopeExit(s, "normal", TRUE, TRUE)
  \/ \E s \in Scopes : ScopeDone(s)
  \/ /\ Len(engines) < MaxEnginesCleared
     /\ \A o \in Scopes : scopes[o].pc /= "engine"
     /\ ClearEngineCache

\* More tenants than the cache holds
LruPortal(i) == "t" \o ToString(i)

LruPortals == {LruPortal(i) : i \in 1..(maxsize + 1)}

\* Every tenant has a database
ManyConfigured == [p \in LruPortals |-> "db://pool"]

\* The tenant a job turns to next: the first one the cache does not hold
NextUncached ==
  LruPortal(CHOOSE i \in 1..(maxsize + 1) :
              /\ ~cache_has(engine_cache, LruPortal(i))
              /\ \A j \in 1..(i - 1) : cache_has(engine_cache, LruPortal(j)))

\* Engines created in a run of the tenant workload
MaxEngines == maxsize + 3

\* A job thread calls get_engine_for_portal for one tenant after another and
\* comes back to its home tenant t1 at any time; the cache is cleared at any
\* time once the workload has filled it.
LruNext ==
  \/ InitPortalDb(ManyConfigured)
  \/ \E p \in {LruPortal(1), NextUncached} :
        /\ Len(engines) < MaxEngines
        /\ PortalEnter(1, "get_engine_for_portal", p)
  \/ HelperEngineLookup(1)
  \/ EngineCreate(1)
  \/ EngineStore(1)
  \/ EngineReturn(1)
  \/ ScopeDone(1)
  \/ Len(engines) >= maxsize /\ ClearEngineCache

vars == <<auth_context, current_portal, auth_set_for, portal_set_for, api_last,
          dev_mode, gateway_secret, pc, req, via, outcome, portal_calls,
          resolver, engine_cache, engines, calls, guard_last,
          public_db, scopes, database, caller_commits, portal_contexts>>

\* The middleware handling one request after the other
Spec == Init /\ [][MwNext]_vars

\* Two concurrent request contexts using the context stores
SpecCtx == Init /\ [][CtxNext]_vars

\* The middleware, and code in another context calling set_auth_context
SpecApi == Init /\ [][ApiNext]_vars

\* Threads calling get_engine_for_portal once each on a cold cache
SpecFirstAccess == Init /\ [][FirstAccessNext]_vars

\* Caller threads entering the tenant router and the control-plane accessor
\* before and after initialisation
SpecRouter == Init /\ [][RouterNext]_vars

\* Caller threads entering the tenant router for two tenants while the
\* resolver and the tenant of the request context change
SpecTenantRouter == Init /\ [][TenantRouterNext]_vars

\* Caller threads working with tenant sessions
SpecTenantSession == Init /\ [][TenantSessionNext]_vars

\* Caller threads working with control-plane sessions
SpecPublicSession == Init /\ [][PublicSessionNext]_vars

\* Caller threads working with tenant and control-plane sessions
SpecSession == Init /\ [][SessionNext]_vars

\* Routes resolving role guards while another context signs in and out
SpecGuard == Init /\ [][GuardNext]_vars

\* The engine cache filled beyond its capacity
SpecLru == Init /\ [][LruNext]_vars

\* The engine cache cleared under sessions and calls
SpecClear == Init /\ [][ClearNext]_vars

\* The engine cache cleared between calls that do not overlap
SpecTurns == Init /\ [][TurnsNext]_vars

\* PortalContext scopes nested by a job
SpecNesting == Init /\ [][NestingNext]_vars

(***************************************************************************)
(* Properties                                                              *)
(***************************************************************************)

\* C1: in every interleaving of the two request contexts, what
\* get_auth_context() and get_current_portal() return inside a context is
\* absent or the value last set on behalf of that same context, never a
\* value set on behalf of the other one.
C1_ContextIsolation ==
  \A c \in Ctxs :
    /\ get_auth_context(c) \in {NoAuth, auth_set_for[c]}
    /\ get_current_portal(c) \in {None, portal_set_for[c]}

\* Both contexts hold a value at once, and the values differ.
C1_Witness ==
  /\ get_auth_context("reqA") /= NoAuth
  /\ get_auth_context("reqB") /= NoAuth
  /\ get_auth_context("reqA") /= get_auth_context("reqB")
  /\ get_current_portal("reqA") = "tA"
  /\ get_current_portal("reqB") = "tB"

\* C2: callers of get_engine_for_portal(t) that overlap on a cold cache,
\* the resolver yielding a URL for t, cause one engine creation for t and
\* all receive the same engine.
C2_SingleCreation ==
  \A p \in Portals :
    /\ Cardinality({i \in 1..Len(engines) : engines[i].portal_id = p}) <= 1
    /\ \A t1, t2 \in Callers :
         (/\ calls[t1].pc = "returned" /\ calls[t1].portal_id = p
          /\ calls[t2].pc = "returned" /\ calls[t2].portal_id = p) =>
           calls[t1].result = calls[t2].result

\* C3: once call_next was reached through the common tail (line 154), then
\* when dispatch has finished, by a response or by an exception of the
\* handler, clear_auth_context() and set_portal_context(None) have run:
\* both contexts read absent and None is the last value propagated.
C3_CleanupAfterHandler ==
  (pc = "done" /\ via = "main") =>
    /\ get_auth_context(Worker) = NoAuth
    /\ get_current_portal(Worker) = None
    /\ portal_calls /= <<>>
    /\ portal_calls[Len(portal_calls)] = None

\* The handler ran with a tenant propagated and raised.
C3_Witness ==
  /\ pc = "done"
  /\ via = "main"
  /\ outcome = Raised("HandlerError", "handler")
  /\ portal_calls = <<"tA", None>>

\* C4: after dispatch has finished by any exit path, AuthContext and
\* TenantContext both read absent in the worker's context.
C4_EveryExitLeavesContextsAbsent ==
  pc = "done" =>
    /\ get_auth_context(Worker) = NoAuth
    /\ get_current_portal(Worker) = None

\* C5: in trusted-header mode with a configured secret, a request whose
\* X-Gateway-Secret is missing or different reaches the handler through the
\* untrusted call_next, with AuthContext absent and without any call of
\* set_portal_context, whatever identity headers it carries.
C5_UntrustedReachesHandlerAnonymous ==
  (/\ ~dev_mode
   /\ Truthy(gateway_secret)
   /\ pc /= "idle"
   /\ req.x_gateway_secret /= gateway_secret) =>
    /\ via = "untrusted"
    /\ portal_calls = <<>>
    /\ get_auth_context(Worker) = NoAuth
    /\ pc = "done" => outcome.by = "handler"

\* A request with a wrong secret and a full set of identity headers is in
\* the handler.
C5_Witness ==
  /\ ~dev_mode
  /\ gateway_secret = "s3cret"
  /\ pc = "handler"
  /\ req.x_gateway_secret = "wrong"
  /\ req.x_user_id = "u1"
  /\ req.x_user_type = "portal_admin"
  /\ req.x_portal_id = "tB"
  /\ req.x_tenant_id = "tA"

\* C6: in token-verification mode a request without a "Bearer " header gets
\* 401 missing_token from the middleware, the handler not invoked, when its
\* path starts with no allow-list entry; otherwise the handler is invoked
\* and the middleware produces no 401.
C6_MissingToken ==
  (dev_mode /\ pc /= "idle" /\ no_bearer(req.authorization)) =>
    IF \E i \in 1..Len(DEV_PUBLIC_PATHS) : startswith(req.path, DEV_PUBLIC_PATHS[i])
      THEN /\ via = "main"
           /\ ~(outcome.kind = "response" /\ outcome.by = "middleware")
      ELSE /\ pc = "done"
           /\ via = "none"
           /\ outcome = Response(401, "missing_token", "middleware")

\* Both cases happen: a 401 for /api/v1/users with a Basic header.
C6_Witness ==
  /\ dev_mode
  /\ pc = "done"
  /\ req.path = PathUsers
  /\ req.authorization = HdrBasic
  /\ outcome = Response(401, "missing_token", "middleware")

\* C7 as stated: without a token, /api/v1/agents/private gets 401
\* missing_token and no handler, /api/v1/health reaches the handler.
C7_AgentsPrivateRejected ==
  (dev_mode /\ pc /= "idle" /\ no_bearer(req.authorization)) =>
    /\ req.path = PathAgentsPrivate =>
         /\ via = "none"
         /\ outcome = Response(401, "missing_token", "middleware")
    /\ req.path = PathHealth => via = "main"

\* C7 amended: without a token, /api/v1/agents/private starts with the
\* allow-list entry /api/v1/agents/ and reaches the handler without a 401
\* of the middleware, as /api/v1/health does; /api/v1/agents and
\* /api/v1/users start with no entry and get 401 missing_token, the handler
\* not invoked.
C7_AgentsPrivateAllowListed ==
  (dev_mode /\ pc /= "idle" /\ no_bearer(req.authorization)) =>
    /\ req.path \in {PathAgentsPrivate, PathHealth} =>
         /\ via = "main"
         /\ ~(outcome.kind = "response" /\ outcome.by = "middleware")
    /\ req.path \in {PathAgentsNoSlash, PathUsers} =>
         /\ via = "none"
         /\ pc = "done"
         /\ outcome = Response(401, "missing_token", "middleware")

\* The handler runs for /api/v1/agents/private without a token.
C7_Witness ==
  /\ dev_mode
  /\ pc = "handler"
  /\ req.path = PathAgentsPrivate
  /\ req.authorization = <<>>

C9_HeadersPopulateAuthContext ==
  (~dev_mode /\ pc /= "idle" /\ trusted(gateway_secret, req.x_gateway_secret)) =>
    LET both == Truthy(req.x_user_id) /\ Truthy(req.x_user_type)
        valid == both /\ req.x_user_type \in UserType
    IN
    /\ valid =>
         /\ via = "main"
         /\ pc = "handler" =>
              get_auth_context(Worker) =
                <<AuthContext(req.x_user_id, req.x_user_type, req.x_portal_id)>>
    /\ ~both =>
         /\ via = "main"
         /\ pc = "handler" => get_auth_context(Worker) = NoAuth
    /\ (pc = "handler" /\ get_auth_context(Worker) /= NoAuth) => valid

\* C10: a call of set_auth_context with a user_type outside the enumeration
\* ends in ValueError and leaves the store as it was; and no request whose
\* user type is outside the enumeration is in the handler with an
\* AuthContext set.
C10_UnknownUserTypeRejected ==
  /\ (api_last.ctx /= None /\ api_last.user_type \notin UserType) =>
       /\ api_last.exc = "ValueError"
       /\ api_last.unchanged
  /\ LET id == extract(dev_mode, gateway_secret, req) IN
     (/\ pc = "handler"
      /\ id.kind = "identity"
      /\ Truthy(id.user_type)
      /\ id.user_type \notin UserType) =>
       get_auth_context(Worker) = NoAuth

\* A rejected call found a stored AuthContext and left it in place.
C10_Witness ==
  /\ api_last.ctx = "reqA"
  /\ api_last.user_type = "bogus"
  /\ api_last.exc = "ValueError"
  /\ get_auth_context("reqA") /= NoAuth

\* C11: in trusted-header mode, for a trusted request, the tenant handed to
\* set_portal_context is the X-Tenant-ID header when it carries a value and
\* the X-Portal-ID header otherwise; the call is made before the handler is
\* invoked, so while the handler runs it is the only call made; when neither
\* header carries a value no call has been made when the handler runs.
C11_TenantHeaderWins ==
  (/\ ~dev_mode
   /\ pc /= "idle"
   /\ (~Truthy(gateway_secret) \/ req.x_gateway_secret = gateway_secret)) =>
    LET tenant == IF Truthy(req.x_tenant_id) THEN req.x_tenant_id
                                            ELSE req.x_portal_id
    IN /\ Truthy(tenant) => (portal_calls /= <<>> /\ portal_calls[1] = tenant)
       /\ pc = "handler" =>
            portal_calls = IF Truthy(tenant) THEN <<tenant>> ELSE <<>>

\* The handler runs for a trusted request carrying X-Tenant-ID: tA and
\* X-Portal-ID: tB, after the one call set_portal_context("tA").
C11_Witness ==
  /\ ~dev_mode
  /\ gateway_secret = "s3cret"
  /\ req.x_gateway_secret = "s3cret"
  /\ pc = "handler"
  /\ req.x_tenant_id = "tA"
  /\ req.x_portal_id = "tB"
  /\ portal_calls = <<"tA">>
  /\ get_current_portal(Worker) = "tA"

\* C12: in token-verification mode the handler runs with AuthContext present
\* only for a request whose bearer token verified with 'type' = 'access',
\* and dispatch reaches its call of set_auth_context only for such a
\* request; a verified token of another type is handled as an anonymous
\* request: the handler is invoked with AuthContext absent.
C12_OnlyAccessTokensAuthenticate ==
  (dev_mode /\ pc /= "idle") =>
    LET access == /\ ~no_bearer(req.authorization)
                  /\ req.jwt.kind = "payload"
                  /\ req.jwt.type = "access"
        reached == \/ get_auth_context(Worker) /= NoAuth
                   \/ (outcome.kind = "exception" /\ outcome.by = "middleware")
    IN /\ (pc = "handler" /\ get_auth_context(Worker) /= NoAuth) => access
       /\ reached => access
       /\ (/\ ~no_bearer(req.authorization)
           /\ req.jwt.kind = "payload"
           /\ req.jwt.type /= "access") =>
            /\ via = "main"
            /\ get_auth_context(Worker) = NoAuth
            /\ pc = "done" => outcome.by = "handler"

\* The handler runs for a verified refresh token that carries a subject
\* and a user type.
C12_Witness ==
  /\ dev_mode
  /\ pc = "handler"
  /\ req.authorization = HdrBearer
  /\ req.jwt.kind = "payload"
  /\ req.jwt.type = "refresh"
  /\ req.jwt.sub = "u1"
  /\ req.jwt.user_type = "portal_admin"
  /\ get_auth_context(Worker) = NoAuth

\* C13: in token-verification mode a bearer token that fails verification
\* for a reason other than an expired signature gets no response from the
\* middleware: the handler is invoked with AuthContext absent, on
\* allow-listed and other paths alike.
C13_InvalidTokenIsAnonymous ==
  (/\ dev_mode
   /\ pc /= "idle"
   /\ ~no_bearer(req.authorization)
   /\ req.jwt.kind = "JWTError") =>
    /\ via = "main"
    /\ get_auth_context(Worker) = NoAuth
    /\ pc = "done" => outcome.by = "handler"

\* The handler runs for a request to a path outside the allow-list whose
\* token failed verification.
C13_Witness ==
  /\ dev_mode
  /\ pc = "handler"
  /\ req.path = PathUsers
  /\ ~is_public(req.path)
  /\ req.authorization = HdrBearer
  /\ req.jwt.kind = "JWTError"
  /\ get_auth_context(Worker) = NoAuth

\* C14: the outcome of a role guard is determined by the AuthContext of the
\* calling context, in this order: absent, 401; a role outside the guard's
\* allowed set, 403; for the portal-admin and client-admin guards a missing
\* portal id, 400; otherwise the caller's identity is returned.  A guard
\* call changes neither AuthContext nor TenantContext.
C14_GuardOutcome ==
  guard_last.guard /= None =>
    LET seen == guard_last.seen
        r == guard_last.result
        allowed == CASE guard_last.guard = "require_system_admin" -> {"system_admin"}
                     [] guard_last.guard = "require_portal_admin" -> {"portal_admin"}
                     [] guard_last.guard = "require_client_admin" ->
                          {"client_admin", "portal_admin"}
        needs_tenant == guard_last.guard \in {"require_portal_admin",
                                              "require_client_admin"}
    IN IF seen = NoAuth THEN r.raised /\ r.status_code = 401
       ELSE IF seen[1].user_type \notin allowed THEN r.raised /\ r.status_code = 403
       ELSE IF needs_tenant /\ seen[1].portal_id = None
         THEN r.raised /\ r.status_code = 400
       ELSE /\ ~r.raised
            /\ r.value = <<[user_id |-> seen[1].user_id,
                            user_type |-> seen[1].user_type,
                            portal_id |-> seen[1].portal_id]>>

C14_GuardsAreFunctionsOfAuthContext ==
  /\ []C14_GuardOutcome
  /\ [][guard_last' /= guard_last => UNCHANGED <<auth_context, current_portal>>]_vars

\* The client-admin guard answered 403 to a chat user without a portal id,
\* in a context whose TenantContext is set.
C14_Witness ==
  /\ guard_last.guard = "require_client_admin"
  /\ guard_last.seen /= NoAuth
  /\ guard_last.seen[1].user_type = "chat_user"
  /\ guard_last.seen[1].portal_id = None
  /\ guard_last.result.status_code = 403
  /\ get_current_portal(guard_last.ctx) = "tA"
  /\ get_auth_context(guard_last.ctx) = guard_last.seen

\* C15: while init_portal_db has not been called, every tenant-router
\* operation that reaches get_engine_for_portal fails with the
\* configuration error and no engine, cache entry or session exists; while
\* init_public_db has not been called, get_public_engine, get_public_db
\* and PublicSession fail with the configuration error and open no session.
C15_FailsBeforeInit ==
  /\ resolver = <<>> =>
       /\ engines = <<>>
       /\ engine_cache = <<>>
       /\ \A s \in Scopes :
            scopes[s].helper \in EngineHelpers \cup PortalSessionHelpers =>
              /\ scopes[s].pc /= "body"
              /\ scopes[s].engine = 0
              /\ scopes[s].pc = "exited" =>
                   scopes[s].raised = IF scopes[s].portal_id = None
                                        THEN NoPortalContext
                                        ELSE "RuntimeError"
  /\ public_db = <<>> =>
       \A s \in Scopes :
         scopes[s].helper \in {"get_public_engine"} \cup PublicSessionHelpers =>
           /\ scopes[s].pc = "exited"
           /\ scopes[s].raised = PublicNotInitialized
           /\ scopes[s].url = None

\* C15, continued: a call that fails with a configuration error leaves the
\* engines, the cache and the control-plane factory as they were, and once
\* the initialisation has been done the same call no longer fails with it.
C15_FailureLeavesNothing ==
  \A s \in Scopes :
    /\ (calls[s].pc = "miss" /\ calls'[s].pc = "raised") =>
         (engines' = engines /\ engine_cache' = engine_cache)
    /\ (scopes[s].pc /= "exited" /\ scopes'[s].pc = "exited"
          /\ scopes'[s].raised \in {"RuntimeError", PublicNotInitialized}) =>
         (engines' = engines /\ engine_cache' = engine_cache
           /\ public_db' = public_db /\ resolver' = resolver)
    /\ (resolver /= <<>> /\ calls[s].pc = "miss" /\ calls'[s] /= calls[s]) =>
         calls'[s].exc /= "RuntimeError"
    /\ (public_db /= <<>> /\ scopes[s].pc = "idle"
          /\ scopes'[s].helper \in {"get_public_engine"} \cup PublicSessionHelpers) =>
         (scopes'[s].raised = None /\ scopes'[s].url = PublicUrl)

C16_NoEngineWithoutUrl ==
  /\ \A i \in 1..Len(engines) : Truthy(engines[i].url)
  /\ \A i \in 1..Len(engine_cache) :
       /\ engine_cache[i].result \in 1..Len(engines)
       /\ engines[engine_cache[i].result].portal_id = engine_cache[i].key
  /\ \A s \in Scopes :
       scopes[s].raised = "ValueError" =>
         (scopes[s].pc = "exited" /\ scopes[s].engine = 0 /\ scopes[s].url = None)

\* C16, continued: when the body of get_engine_for_portal runs with a
\* resolver that yields None or "" for the tenant it raises ValueError and
\* leaves engines and cache as they were; when the resolver yields a URL,
\* whatever failed before, it creates an engine for that URL and the
\* wrapper returns that engine.
C16_BodyStep ==
  \A s \in Scopes :
    /\ (resolver /= <<>> /\ calls[s].pc = "miss" /\ calls'[s] /= calls[s]) =>
         IF resolver[1][calls[s].portal_id] \in {None, ""}
           THEN /\ calls'[s].pc = "raised"
                /\ calls'[s].exc = "ValueError"
                /\ engines' = engines
                /\ engine_cache' = engine_cache
           ELSE /\ calls'[s].pc = "created"
                /\ engines' = Append(engines,
                                     [portal_id |-> calls[s].portal_id,
                                      url |-> resolver[1][calls[s].portal_id]])
                /\ calls'[s].result = Len(engines')
    /\ (calls[s].pc = "created" /\ calls'[s] /= calls[s]) =>
         (calls'[s].pc = "returned" /\ calls'[s].result = calls[s].result)

C16_UnconfiguredTenantFails ==
  /\ []C16_NoEngineWithoutUrl
  /\ [][C16_BodyStep]_vars

\* get_portal_db has its session on an engine for db://tB, after the
\* resolver was replaced, while an earlier get_db_for_portal("tB") of
\* another thread still shows its 'no database configured'.
C16_Witness ==
  /\ scopes[2].helper = "get_db_for_portal"
  /\ scopes[2].portal_id = "tB"
  /\ scopes[2].raised = "ValueError"
  /\ scopes[1].helper = "get_portal_db"
  /\ scopes[1].pc = "body"
  /\ scopes[1].portal_id = "tB"
  /\ scopes[1].url = "db://tB"
  /\ engines[scopes[1].engine].portal_id = "tB"

\* C17: get_portal_db in a context without a portal fails with 'no portal
\* context' without having called get_engine_for_portal or opened a
\* session; with portal t in the context when it is entered, the session
\* it yields is bound to the engine the cache holds for t, an engine of
\* tenant t, whatever the context holds later.
C17_SessionOnCachedEngineOfTenant ==
  \A s \in Scopes :
    scopes[s].helper = "get_portal_db" =>
      /\ scopes[s].raised = NoPortalContext =>
           /\ scopes[s].pc = "exited"
           /\ scopes[s].engine = 0
           /\ scopes[s].url = None
           /\ calls[s] = NoCall
      /\ scopes[s].pc = "body" =>
           /\ scopes[s].engine \in 1..Len(engines)
           /\ engines[scopes[s].engine].portal_id = scopes[s].portal_id
           /\ scopes[s].cached

\* C18: the exit code of get_portal_db, get_db_for_portal and PortalSession
\* only closes the session, and what a tenant database holds, which is what
\* any later session on that tenant sees, is exactly what callers committed
\* with their own db.commit().
C18_TenantSessionsNeverCommit ==
  /\ \A u \in DbUrls \ {PublicUrl} : database[u] = caller_commits[u]
  /\ \A s \in Scopes :
       (/\ scopes[s].helper \in PortalSessionHelpers
        /\ scopes[s].pc = "exited"
        /\ scopes[s].url /= None) =>
         scopes[s].ops = <<"close">>

\* get_portal_db was left by an exception with a write that was not
\* committed; the session of another thread on the same tenant finds the
\* database without it.
C18_Witness ==
  /\ scopes[1].helper = "get_portal_db"
  /\ scopes[1].pc = "exited"
  /\ scopes[1].exit = "Exception"
  /\ scopes[1].pending
  /\ scopes[1].closed
  /\ scopes[2].helper = "get_db_for_portal"
  /\ scopes[2].pc = "body"
  /\ scopes[2].url = scopes[1].url
  /\ database[scopes[1].url] = {}

\* C19: the exit code of get_public_db and PublicSession starts with
\* commit() when the body ended without an exception and makes no commit
\* when it ended with one: then it starts with rollback() (in get_public_db
\* for an Exception; any other BaseException reaches only close(), which
\* discards the transaction), and the pending work stays uncommitted.
\* close() is never followed by another call, and an exception leaves the
\* scope: the body's own when the rollback succeeded.
C19_ExitCode ==
  \A s \in Scopes :
    (/\ scopes[s].helper \in PublicSessionHelpers
     /\ scopes[s].pc = "exited"
     /\ scopes[s].url /= None) =>
      LET ops == scopes[s].ops IN
      /\ ops /= <<>>
      /\ \A i \in 1..Len(ops) : ops[i] = "close" => i = Len(ops)
      /\ IF scopes[s].exit = "normal"
           THEN /\ ops[1] \in {"commit", "commit_failed"}
                /\ ops[1] = "commit" =>
                     /\ ops = <<"commit", "close">>
                     /\ ~scopes[s].pending
                     /\ scopes[s].raised = None
                /\ ops[1] = "commit_failed" => scopes[s].raised /= None
           ELSE /\ \A i \in 1..Len(ops) : ops[i] \notin {"commit", "commit_failed"}
                /\ \/ ops[1] \in {"rollback", "rollback_failed"}
                   \/ /\ scopes[s].helper = "get_public_db"
                      /\ scopes[s].exit = "BaseException"
                      /\ ops = <<"close">>
                /\ scopes[s].raised /= None
                /\ ops[1] /= "rollback_failed" => scopes[s].raised = "body"

\* C19, continued: the exit code of a control-plane session changes the
\* database exactly when the body ended without an exception, the commit
\* succeeded and work was pending; that work is then in the database.
C19_ExitStep ==
  \A s \in Scopes :
    (/\ scopes[s].pc = "body"
     /\ scopes'[s].pc = "exited"
     /\ scopes[s].helper \in PublicSessionHelpers) =>
      IF scopes'[s].exit = "normal" /\ scopes'[s].ops[1] = "commit"
        THEN database' = [database EXCEPT ![PublicUrl] =
                            IF scopes[s].pending THEN @ \cup {s} ELSE @]
        ELSE database' = database /\ scopes'[s].pending = scopes[s].pending

C20_ClosedOnEveryExit ==
  \A s \in Scopes :
    (/\ scopes[s].helper \in PortalSessionHelpers \cup PublicSessionHelpers
     /\ scopes[s].pc = "exited"
     /\ scopes[s].url /= None) =>
      scopes[s].closed


(***************************************************************************)
(* C21: the engine cache never holds more than its capacity of 100         *)
(* entries (one per tenant); a tenant inserted into a full cache removes   *)
(* the entry whose last access, hit or insertion, is the oldest; and an    *)
(* entry leaves the cache only by this eviction or by clear_engine_cache.  *)
(* The cache lists its entries in the order of their last access: every    *)
(* hit and every insertion puts its tenant last and leaves the others in   *)
(* their order, so the first entry is the one accessed longest ago.        *)
(***************************************************************************)
cache_keys(cache) == {cache[i].key : i \in 1..Len(cache)}

C21_AtMostCapacity ==
  /\ Len(engine_cache) <= maxsize
  /\ Cardinality(cache_keys(engine_cache)) = Len(engine_cache)

\* What one step of thread t does to the cache
C21_Hit(t) == calls[t].pc = "ready" /\ calls'[t].pc = "returned"

C21_Insertion(t) ==
  /\ calls[t].pc = "created" /\ calls'[t].pc = "returned"
  /\ ~cache_has(engine_cache, calls[t].portal_id)

C21_CacheStep ==
  LET removed == cache_keys(engine_cache) \ cache_keys(engine_cache') IN
  \/ \E t \in Callers :
        /\ C21_Hit(t)
        /\ removed = {}
        /\ engine_cache'[Len(engine_cache')].key = calls'[t].portal_id
        /\ without(engine_cache', calls'[t].portal_id)
             = without(engine_cache, calls'[t].portal_id)
  \/ \E t \in Callers :
        /\ C21_Insertion(t)
        /\ engine_cache'[Len(engine_cache')].key = calls[t].portal_id
        /\ IF Len(engine_cache) = maxsize
             THEN /\ removed = {engine_cache[1].key}
                  /\ without(engine_cache', calls[t].portal_id) = Tail(engine_cache)
             ELSE /\ removed = {}
                  /\ without(engine_cache', calls[t].portal_id) = engine_cache
  \/ /\ calls' = calls
     /\ engine_cache' = <<>>
  \/ /\ \A t \in Callers : ~C21_Hit(t) /\ ~C21_Insertion(t)
     /\ engine_cache' = engine_cache

C21_CacheIsBoundedLru == []C21_AtMostCapacity /\ [][C21_CacheStep]_vars

\* The cache is full after tenant t101 was inserted: t1, hit after t2 was
\* inserted, is still cached and t2, then the oldest, is gone
C21_Witness ==
  /\ Len(engine_cache) = maxsize
  /\ cache_has(engine_cache, LruPortal(maxsize + 1))
  /\ cache_has(engine_cache, LruPortal(1))
  /\ ~cache_has(engine_cache, LruPortal(2))
  /\ Len(engines) = maxsize + 1


(***************************************************************************)
(* C22: at every moment at most one engine exists per tenant: among the    *)
(* engines that are in the cache or have a session open on them, no two    *)
(* distinct ones belong to the same tenant.                                *)
(***************************************************************************)
\* An engine is in use while the cache holds it or a session is open on it
live(e) ==
  \/ \E i \in 1..Len(engine_cache) : engine_cache[i].result = e
  \/ \E s \in Scopes : scopes[s].pc = "body" /\ scopes[s].engine = e

C22_OneLiveEnginePerTenant ==
  \A e1, e2 \in 1..Len(engines) :
    /\ live(e1) /\ live(e2)
    /\ engines[e1].portal_id = engines[e2].portal_id
    => e1 = e2


(***************************************************************************)
(* C23: clear_engine_cache empties the engine cache and changes nothing    *)
(* else: the sessions open on engines returned before, the engines and the *)
(* stored resolver stay as they are.  A call of get_engine_for_portal that *)
(* looks its tenant up in the cache as the clear left it finds nothing,    *)
(* calls the resolver stored at that time and creates a new engine.        *)
(***************************************************************************)
\* A step that changes the cache and belongs to no call is the clear
C23_ClearStep ==
  (engine_cache' /= engine_cache /\ calls' = calls)
    => /\ engine_cache' = <<>>
       /\ UNCHANGED <<resolver, engines, sessVars, ctxVars>>

\* The lookup of an uncached tenant runs the body, and the body resolves the
\* URL again and creates an engine that did not exist before
C23_MissStep ==
  \A t \in Callers :
    /\ (/\ calls[t].pc = "ready" /\ calls'[t].pc /= "ready"
        /\ ~cache_has(engine_cache, calls'[t].portal_id))
         => calls'[t].pc = "miss"
    /\ (calls[t].pc = "miss" /\ calls'[t].pc /= "miss")
         => LET r == engine_url(resolver, calls[t].portal_id) IN
            IF r.exc /= None
              THEN calls'[t].pc = "raised" /\ engines' = engines
              ELSE /\ calls'[t].pc = "created"
                   /\ calls'[t].result = Len(engines) + 1
                   /\ engines' = Append(engines, [portal_id |-> calls[t].portal_id,
                                                   url |-> r.url])

C23_ClearOnlyEmptiesCache == [][C23_ClearStep /\ C23_MissStep]_vars

\* A session opened on the engine then cached for its tenant is still open
\* with its work pending, while the cache holds the engine that another
\* thread's call created for the same tenant after the clear
C23_Witness ==
  /\ scopes[1].pc = "body" /\ scopes[1].engine = 1 /\ scopes[1].cached
  /\ scopes[1].pending /\ ~scopes[1].closed
  /\ scopes[2].pc = "exited" /\ scopes[2].engine = 2
  /\ engines[1].portal_id = engines[2].portal_id
  /\ cache_has(engine_cache, scopes[1].portal_id)
  /\ cache_get(engine_cache, scopes[1].portal_id) = 2


(***************************************************************************)
(* C24: for properly nested PortalContext scopes, inside a scope the       *)
(* current portal is the scope's tenant, and after the exit of a scope,    *)
(* normal or by an exception (which is not swallowed), the current portal  *)
(* is the one that was current just before that scope was entered; at      *)
(* every depth, also when an object is entered again while it is active.   *)
(***************************************************************************)
C24_ScopesRestorePrevious ==
  LET stack == portal_contexts.stack
      last == portal_contexts.last
  IN
  /\ (stack /= <<>> /\ ~portal_contexts.raising)
       => get_current_portal(JobCtx) = PortalContextArg(stack[Len(stack)].obj)
  /\ last.obj /= 0
       => /\ last.after = last.before
          /\ ~last.suppressed


(***************************************************************************)
(* C25: in token-verification mode the tenant handed to                    *)
(* set_portal_context comes only from the claims of a verified access      *)
(* token: for a request without a bearer token, with a token that fails    *)
(* verification or with a verified token of another type, no tenant is     *)
(* propagated, whatever X-Tenant-ID and X-Portal-ID headers it carries.    *)
(***************************************************************************)
C25_TenantOnlyFromVerifiedToken ==
  (dev_mode /\ pc = "handler") =>
    LET access == /\ ~no_bearer(req.authorization)
                  /\ req.jwt.kind = "payload"
                  /\ req.jwt.type = "access"
    IN /\ ~access => /\ portal_calls = <<>>
                     /\ ~Truthy(get_current_portal(Worker))
       /\ portal_calls /= <<>> => /\ access
                                  /\ portal_calls = <<req.jwt.portal_slug>>

=============================================================================
